---- MODULE Spec2Model ----
(***************************************************************************)
(* Model of librustc_mir/borrow_check/nll/region_infer/error_reporting:    *)
(* the breadth-first search over the outlives-constraint graph             *)
(* (find_constraint_paths_between_regions), the choice of the constraint   *)
(* to blame (best_blame_constraint) and the construction of the buffered   *)
(* diagnostic (report_error and its two shapes).                           *)
(*                                                                         *)
(* The region inference context (definitions, constraints,                 *)
(* constraint_sccs, fr_static) is fixed by Init and never changes.  One    *)
(* call of an entry point runs at a time; the search loop and the backward *)
(* walk over the Trace links advance one loop iteration per step.          *)
(***************************************************************************)
EXTENDS Integers, Sequences, FiniteSets, TLC

\* ------------------------------------------------------------- bounds
\* Largest number of region definitions of a freely drawn graph.
MaxRegions == 3
\* Largest number of constraints of a freely drawn graph.
MaxConstraints == 2
\* Longest chain r0 -> r1 -> ... of the chain-shaped graphs.
MaxChain == 3
\* Longest chain whose edges take every category of the enumeration.
MaxRankChain == 2
\* Longest chain of the graphs errors are reported on.
MaxReportChain == 1
\* Largest number of diagnostics already in the caller's buffer.
MaxPrior == 1

\* ------------------------------------------------- ConstraintCategory
\* The values of the enumeration (the arms of the match in Display).
ConstraintCategory ==
    { "Assignment", "Return", "Cast", "CallArgument", "TypeAnnotation",
      "ClosureBounds", "SizedBound", "CopyBound", "OpaqueType", "Boring",
      "BoringNoLocation", "Internal" }

\* The order in which the enumeration declares its values.
CategoryOrder ==
    << "Assignment", "Return", "Cast", "CallArgument", "TypeAnnotation",
       "ClosureBounds", "SizedBound", "CopyBound", "OpaqueType", "Boring",
       "BoringNoLocation", "Internal" >>

\* derive(Ord): a value's position in the declaration order.
CategoryRank(c) == CHOOSE i \in 1..Len(CategoryOrder) : CategoryOrder[i] = c

\* p0.0.cmp(&p1.0) is Less or Equal.
CategoryLe(c0, c1) == CategoryRank(c0) <= CategoryRank(c1)

\* The character U+0060, which a TLA+ string cannot hold.
Backquote == "U+0060"

\* The text of each arm of the match in Display, one character per element.
CategoryPhrase(c) ==
    CASE c = "Assignment" -> <<"a","s","s","i","g","n","m","e","n","t"," ">>
      [] c = "Return" -> <<"r","e","t","u","r","n","i","n","g"," ","t","h","i","s"," ","v","a","l","u","e"," ">>
      [] c = "Cast" -> <<"c","a","s","t"," ">>
      [] c = "CallArgument" -> <<"a","r","g","u","m","e","n","t"," ">>
      [] c = "TypeAnnotation" -> <<"t","y","p","e"," ","a","n","n","o","t","a","t","i","o","n"," ">>
      [] c = "ClosureBounds" -> <<"c","l","o","s","u","r","e"," ","b","o","d","y"," ">>
      [] c = "SizedBound" -> <<"p","r","o","v","i","n","g"," ","t","h","i","s"," ","v","a","l","u","e"," ","i","s"," ",Backquote,"S","i","z","e","d",Backquote," ">>
      [] c = "CopyBound" -> <<"c","o","p","y","i","n","g"," ","t","h","i","s"," ","v","a","l","u","e"," ">>
      [] c = "OpaqueType" -> <<"o","p","a","q","u","e"," ","t","y","p","e"," ">>
      [] c \in {"Boring", "BoringNoLocation", "Internal"} -> << >>

\* A fmt that loses the last character of the text.
DisplayTrimmed(c) ==
    LET text == CategoryPhrase(c)
    IN IF text = << >> THEN text ELSE SubSeq(text, 1, Len(text) - 1)

\* impl fmt::Display for ConstraintCategory: fmt writes the text of the arm.
Display(c) == CategoryPhrase(c)

\* ---------------------------------------------------------------- state
VARIABLES
    definitions,      \* self.definitions: the number of region variables
    constraints,      \* self.constraints, in the graph's enumeration order
    constraint_sccs,  \* self.constraint_sccs: region -> SCC id
    fr_static,        \* self.universal_regions.fr_static
    pc,               \* position of the running call
    entry,            \* the entry point that is running
    from_region,      \* argument from_region of the search
    target_test,      \* the regions for which target_test(r) is true
    context,          \* IndexVec<RegionVid, Trace> of the search
    deque,            \* VecDeque<RegionVid> of the search
    r,                \* the region the search popped last
    p,                \* the region the backward walk stands on
    result,           \* the edges the backward walk has pushed
    ret,              \* what find_constraint_paths_between_regions returned
    blame,            \* what best_blame_constraint returned
    errors_buffer,    \* argument errors_buffer of report_error
    old_errors_buffer,\* errors_buffer as the caller passed it
    env,              \* the collaborators' answers during report_error
    enqueued,         \* region -> number of push_back calls of this search
    dequeued          \* region -> number of pop_front calls of this search

vars == << definitions, constraints, constraint_sccs, fr_static, pc, entry, from_region,
           target_test, context, deque, r, p, result, ret, blame,
           errors_buffer, old_errors_buffer, env, enqueued, dequeued >>

graph == << definitions, constraints, constraint_sccs, fr_static >>

Regions == 0..(definitions - 1)

\* --------------------------------------------------------------- Trace
NotVisited == [tag |-> "NotVisited"]
StartRegion == [tag |-> "StartRegion"]
FromOutlivesConstraint(c) == [tag |-> "FromOutlivesConstraint", c |-> c]

\* Option<(Vec<OutlivesConstraint>, RegionVid)>
NoneRet == [some |-> FALSE]
SomeRet(path, region) == [some |-> TRUE, path |-> path, region |-> region]

\* ------------------------------------------------------------- helpers
\* A walk whose result is returned as collected, target end first.
NoReverse(s) == s

\* result.reverse()
Reverse(s) == [i \in 1..Len(s) |-> s[Len(s) + 1 - i]]

\* OutlivesConstraint: sup: sub, with its category and the span its
\* locations resolve to.
OutlivesConstraint(sup, sub, category, span) ==
    [sup |-> sup, sub |-> sub, category |-> category, span |-> span]

\* DUMMY_SP, the span of a constraint that no location gave rise to; the
\* spans of the constraints of self.constraints are numbered from 1.
DUMMY_SP == 0

\* The constraints the graph yields for the static region: one to every
\* region, in index order, of category Internal and at no location.
StaticEdges(n, static) ==
    [i \in 1..n |-> OutlivesConstraint(static, i - 1, "Internal", DUMMY_SP)]

\* The constraints the graph yields for a region that is not the static
\* region: the constraints of cs whose sup it is, in the order of cs.
NormalEdges(cs, reg) == SelectSeq(cs, LAMBDA c : c.sup = reg)

\* self.constraint_graph.outgoing_edges(r, &self.constraints, fr_static):
\* for fr_static the edges to every region, for any other region its
\* constraints (assert_eq!(constraint.sup, r)).
outgoing_edges(reg) ==
    IF reg = fr_static
    THEN StaticEdges(definitions, fr_static)
    ELSE NormalEdges(constraints, reg)

\* A loop body that enqueues the sub region whenever the constraint is not
\* the one it was first reached by.
VisitEdgeRevisit(st, c) ==
    LET sub_region == c.sub
    IN IF st.ctx[sub_region] # FromOutlivesConstraint(c)
       THEN [ctx |-> IF st.ctx[sub_region] = NotVisited
                     THEN [st.ctx EXCEPT ![sub_region] = FromOutlivesConstraint(c)]
                     ELSE st.ctx,
             dq  |-> Append(st.dq, sub_region),
             enq |-> [st.enq EXCEPT ![sub_region] = @ + 1]]
       ELSE st

\* The body of `for constraint in outgoing_edges(r)` for one constraint: the
\* sub region is recorded and enqueued only while it is NotVisited.
VisitEdge(st, c) ==
    LET sub_region == c.sub
    IN IF st.ctx[sub_region] = NotVisited
       THEN [ctx |-> [st.ctx EXCEPT ![sub_region] = FromOutlivesConstraint(c)],
             dq  |-> Append(st.dq, sub_region),
             enq |-> [st.enq EXCEPT ![sub_region] = @ + 1]]
       ELSE st

\* The for loop over the outgoing constraints of one region.
RECURSIVE ForEachEdge(_, _)
ForEachEdge(edges, st) ==
    IF edges = << >> THEN st
    ELSE ForEachEdge(Tail(edges), VisitEdge(st, Head(edges)))

\* target_test(reg), when the search stops only at the region of greatest
\* index that passes the test and walks past the others.
TargetTestFarthest(reg) ==
    reg \in target_test /\ \A x \in target_test : x <= reg

\* target_test(reg), when the search does not test its start region.
TargetTestNotStart(reg) == reg \in target_test /\ reg # from_region

\* if target_test(r)
TargetTest(reg) == reg \in target_test

\* ------------------------------------------------------------ the calls
NoBlame == [tag |-> "none"]
NoEnv == [tag |-> "none"]

\* The locals of a call that has not started (or has been returned from).
Idle ==
    /\ pc = "idle"
    /\ entry = "none"
    /\ from_region = 0
    /\ target_test = {}
    /\ context = [x \in Regions |-> NotVisited]
    /\ deque = << >>
    /\ r = 0
    /\ p = 0
    /\ result = << >>
    /\ ret = NoneRet
    /\ blame = NoBlame
    /\ errors_buffer = << >>
    /\ old_errors_buffer = << >>
    /\ env = NoEnv
    /\ enqueued = [x \in Regions |-> 0]
    /\ dequeued = [x \in Regions |-> 0]

\* find_constraint_paths_between_regions up to its while loop: every region
\* NotVisited but from_region, which is the StartRegion and alone in the deque.
StartSearch(e, from, test) ==
    /\ pc = "idle"
    /\ pc' = "search"
    /\ entry' = e
    /\ from_region' = from
    /\ target_test' = test
    /\ context' = [[x \in Regions |-> NotVisited] EXCEPT ![from] = StartRegion]
    /\ deque' = << from >>
    /\ enqueued' = [[x \in Regions |-> 0] EXCEPT ![from] = 1]
    /\ dequeued' = [x \in Regions |-> 0]
    /\ UNCHANGED << graph, r, p, result, ret, blame, env >>

\* find_sub_region_live_at(fr1, elem): live is the set of regions whose
\* liveness constraints contain elem.
CallFindSubRegionLiveAt ==
    \E fr1 \in Regions, live \in SUBSET Regions :
        /\ StartSearch("find_sub_region_live_at", fr1, live)
        /\ UNCHANGED << errors_buffer, old_errors_buffer >>

\* One iteration of `while let Some(r) = deque.pop_front()` in which
\* target_test(r) holds: the backward walk starts at r.
SearchFound ==
    /\ pc = "search"
    /\ deque # << >>
    /\ TargetTest(Head(deque))
    /\ r' = Head(deque)
    /\ deque' = Tail(deque)
    /\ dequeued' = [dequeued EXCEPT ![Head(deque)] = @ + 1]
    /\ result' = << >>
    /\ p' = Head(deque)
    /\ pc' = "trace"
    /\ UNCHANGED << graph, entry, from_region, target_test, context, ret,
                    blame, errors_buffer,
                    old_errors_buffer, env, enqueued >>

\* One iteration of the while loop in which target_test(r) fails: the
\* outgoing constraints of r are walked.
SearchExpand ==
    /\ pc = "search"
    /\ deque # << >>
    /\ ~TargetTest(Head(deque))
    /\ LET st == ForEachEdge(outgoing_edges(Head(deque)),
                             [ctx |-> context, dq |-> Tail(deque), enq |-> enqueued])
       IN /\ context' = st.ctx
          /\ deque' = st.dq
          /\ enqueued' = st.enq
    /\ r' = Head(deque)
    /\ dequeued' = [dequeued EXCEPT ![Head(deque)] = @ + 1]
    /\ UNCHANGED << graph, pc, entry, from_region, target_test, p, result,
                    ret, blame, errors_buffer,
                    old_errors_buffer, env >>

\* The deque is empty: the while loop ends and None is returned.
SearchFail ==
    /\ pc = "search"
    /\ deque = << >>
    /\ ret' = NoneRet
    /\ pc' = "returned"
    /\ UNCHANGED << graph, entry, from_region, target_test, context, deque,
                    r, p, result, blame, errors_buffer,
                    old_errors_buffer, env, enqueued, dequeued >>

\* One iteration of the `loop` over context[p]: bug! on NotVisited, push and
\* step to c.sup on FromOutlivesConstraint(c), reverse and return on
\* StartRegion.
TraceStep ==
    /\ pc = "trace"
    /\ CASE context[p] = NotVisited ->
              /\ pc' = "bug"
              /\ UNCHANGED << p, result, ret >>
         [] context[p] = StartRegion ->
              /\ ret' = SomeRet(Reverse(result), r)
              /\ pc' = "returned"
              /\ UNCHANGED << p, result >>
         [] OTHER ->
              /\ result' = Append(result, context[p].c)
              /\ p' = context[p].c.sup
              /\ UNCHANGED << pc, ret >>
    /\ UNCHANGED << graph, entry, from_region, target_test, context, deque,
                    r, blame, errors_buffer,
                    old_errors_buffer, env, enqueued, dequeued >>

\* find_sub_region_live_at unwraps the search's result and returns the region.
FindSubRegionLiveAtReturn ==
    /\ pc = "returned"
    /\ entry = "find_sub_region_live_at"
    /\ pc' = IF ret.some THEN "done" ELSE "panic"
    /\ UNCHANGED << graph, entry, from_region, target_test, context, deque,
                    r, p, result, ret, blame, errors_buffer,
                    old_errors_buffer, env, enqueued,
                    dequeued >>

\* ------------------------------------------------- best_blame_constraint
\* The categories the primary selection never blames.
UninterestingCategories == {"OpaqueType", "Boring", "BoringNoLocation", "Internal"}

\* path.iter().map(|constraint| (constraint.category, span)).collect()
CategorizedPath(path) ==
    [i \in 1..Len(path) |-> << path[i].category, path[i].span >>]

\* The closure given to find: the category is interesting and the SCC of
\* the constraint's sup is not the target's.
IsBestChoice(path, target_scc, i) ==
    LET constraint == path[i]
        constraint_sup_scc == constraint_sccs[constraint.sup]
    IN IF CategorizedPath(path)[i][1] \in UninterestingCategories
       THEN FALSE
       ELSE constraint_sup_scc # target_scc

\* A find that scans from the start of the path: the first position up to i.
ForwardFind(path, target_scc, i) ==
    LET S == { j \in 1..i : IsBestChoice(path, target_scc, j) }
    IN IF S = {} THEN 0 ELSE CHOOSE j \in S : \A k \in S : j <= k

\* (0..path.len()).rev().find(..), from position i down; positions count from
\* 1 here, and 0 stands for None.
RECURSIVE RevFind(_, _, _)
RevFind(path, target_scc, i) ==
    IF i = 0 THEN 0
    ELSE IF IsBestChoice(path, target_scc, i) THEN i
    ELSE RevFind(path, target_scc, i - 1)

\* One insertion of an unstable sort: x goes before the elements equal to it.
RECURSIVE InsertSortedUnstable(_, _)
InsertSortedUnstable(sorted, x) ==
    IF sorted = << >> THEN << x >>
    ELSE IF CategoryLe(x[1], Head(sorted)[1])
         THEN << x >> \o sorted
         ELSE << Head(sorted) >> \o InsertSortedUnstable(Tail(sorted), x)

\* One insertion of the stable sort: x goes behind every element that is not
\* greater than it.
RECURSIVE InsertSorted(_, _)
InsertSorted(sorted, x) ==
    IF sorted = << >> THEN << x >>
    ELSE IF CategoryLe(Head(sorted)[1], x[1])
         THEN << Head(sorted) >> \o InsertSorted(Tail(sorted), x)
         ELSE << x >> \o sorted

\* categorized_path.sort_by(|p0, p1| p0.0.cmp(&p1.0)): a stable sort.
RECURSIVE SortByCategory(_)
SortByCategory(cp) ==
    IF cp = << >> THEN << >>
    ELSE InsertSorted(SortByCategory(SubSeq(cp, 1, Len(cp) - 1)), cp[Len(cp)])

Panic == [tag |-> "panic"]
Blame(category, span, target_region) ==
    [tag |-> "blame", category |-> category, span |-> span,
     target_region |-> target_region]

\* The fallback: sort by category and take the first entry; first().unwrap()
\* panics on an empty path.
FallbackBlame(path, target_region) ==
    LET sorted == SortByCategory(CategorizedPath(path))
    IN IF sorted = << >> THEN Panic
       ELSE Blame(sorted[1][1], sorted[1][2], target_region)

\* best_blame_constraint once the search has returned found: unwrap() panics
\* on None; the primary selection, then the fallback.
best_blame_constraint(found) ==
    IF ~found.some THEN Panic
    ELSE LET path == found.path
             target_region == found.region
             target_scc == constraint_sccs[target_region]
             best_choice == RevFind(path, target_scc, Len(path))
         IN IF best_choice # 0
            THEN Blame(CategorizedPath(path)[best_choice][1],
                       CategorizedPath(path)[best_choice][2], target_region)
            ELSE FallbackBlame(path, target_region)

\* find_outlives_blame_span(mir, fr1, fr2)
CallFindOutlivesBlameSpan ==
    \E fr1 \in Regions, fr2 \in Regions :
        /\ StartSearch("find_outlives_blame_span", fr1, {fr2})
        /\ UNCHANGED << errors_buffer, old_errors_buffer >>

\* best_blame_constraint after its call of the search.
BestBlameConstraint ==
    /\ pc = "returned"
    /\ entry \in {"find_outlives_blame_span", "report_error"}
    /\ blame' = best_blame_constraint(ret)
    /\ pc' = IF blame'.tag = "panic" THEN "panic" ELSE "blamed"
    /\ UNCHANGED << graph, entry, from_region, target_test, context, deque,
                    r, p, result, ret, errors_buffer,
                    old_errors_buffer, env, enqueued, dequeued >>

\* find_outlives_blame_span returns the span of the blamed constraint.
FindOutlivesBlameSpanReturn ==
    /\ pc = "blamed"
    /\ entry = "find_outlives_blame_span"
    /\ pc' = "done"
    /\ UNCHANGED << graph, entry, from_region, target_test, context, deque,
                    r, p, result, ret, blame, errors_buffer,
                    old_errors_buffer, env, enqueued,
                    dequeued >>

\* ---------------------------------------------------------- report_error
\* A diagnostic: its primary message (the pieces format! joins), its primary
\* span, its labels in the order they are added, and what
\* add_static_impl_trait_suggestion added.
Diagnostic(message, span, labels, suggestion) ==
    [message |-> message, span |-> span, labels |-> labels,
     suggestion |-> suggestion]

Label(at, text) == [at |-> at, text |-> text]

\* diag.buffer(errors_buffer)
Buffer(buf, diag) == Append(buf, diag)

\* if infcx.tcx.is_closure(mir_def_id) { "closure" } else { "function" }
EscapesFrom(is_closure) == IF is_closure THEN "closure" ELSE "function"

\* What get_var_name_and_span_for_region may answer:
\* None, Some((None, span)) or Some((Some(name), span)).
NameAndSpan == {"None", "SomeUnnamed", "SomeNamed"}

\* add_static_impl_trait_suggestion: nothing unless fr has an error region,
\* outlived_fr's error region is ReStatic and the item returns an opaque
\* type; then a help when the type has a 'static bound, else a suggested
\* edit when the snippet can be read.
StaticImplTraitSuggestion(e) ==
    IF e.to_error_fr /\ e.to_error_outlived = "ReStatic"
    THEN CASE e.impl_trait = "StaticPredicate" -> "help"
           [] e.impl_trait = "Snippet" -> "edit"
           [] OTHER -> "none"
    ELSE "none"

\* give_region_a_name(.., region, counter, &mut diag): the call is handed
\* the diagnostic and may label where the region it names is defined.
NamingLabels(labelled, name) ==
    IF labelled
    THEN << Label("def_span", << "lifetime ", Backquote, name, Backquote, " defined here" >>) >>
    ELSE << >>

\* report_general_error
report_general_error(buf, e, fr_is_local, outlived_fr_is_local, category, span) ==
    LET mir_def_name == EscapesFrom(e.is_closure)
        label ==
            IF category = "Return" /\ outlived_fr_is_local
            THEN Label(span, << mir_def_name,
                     " was supposed to return data with lifetime ", Backquote,
                     "outlived_fr_name", Backquote, " but it is returning data with lifetime ", Backquote,
                     "fr_name", Backquote >>)
            ELSE Label(span, << Display(category), "requires that ", Backquote, "fr_name",
                     Backquote, " must outlive ", Backquote, "outlived_fr_name", Backquote >>)
        diag == Diagnostic(<< "unsatisfied lifetime constraints" >>, span,
                           NamingLabels(e.fr_name_labelled, "fr_name")
                              \o NamingLabels(e.outlived_fr_name_labelled,
                                              "outlived_fr_name")
                              \o << label >>,
                           StaticImplTraitSuggestion(e))
    IN Buffer(buf, diag)

\* The labels of the escaping-data diagnostic: one for outlived_fr when it
\* has a name, two for fr when it has a name.
EscapingLabels(e, span) ==
    LET escapes_from == EscapesFrom(e.is_closure)
    IN (IF e.outlived_fr_name_and_span = "SomeNamed"
        THEN << Label("outlived_fr_span",
                  << Backquote, "outlived_fr_name", Backquote, " is declared here, outside of the ",
                     escapes_from, " body" >>) >>
        ELSE << >>)
       \o
       (IF e.fr_name_and_span = "SomeNamed"
        THEN << Label("fr_span",
                  << Backquote, "fr_name", Backquote, " is a reference that is only valid in the ",
                     escapes_from, " body" >>),
                Label(span,
                  << Backquote, "fr_name", Backquote, " escapes the ", escapes_from, " body here" >>) >>
        ELSE << >>)

\* A report_escaping_data_error whose revert does not return: the general
\* diagnostic is buffered and the escaping-data one after it.
report_escaping_data_error_no_return(buf, e, category, span) ==
    LET escapes_from == EscapesFrom(e.is_closure)
        reverted ==
            IF \/ (e.fr_name_and_span = "None" /\ e.outlived_fr_name_and_span = "None")
               \/ (category = "Assignment" /\ escapes_from = "function")
            THEN report_general_error(buf, e, TRUE, FALSE, category, span)
            ELSE buf
    IN Buffer(reverted, Diagnostic(
                << "borrowed data escapes outside of ", escapes_from >>, span,
                EscapingLabels(e, span), "none"))

\* report_escaping_data_error
report_escaping_data_error(buf, e, category, span) ==
    LET escapes_from == EscapesFrom(e.is_closure)
    IN IF \/ (e.fr_name_and_span = "None" /\ e.outlived_fr_name_and_span = "None")
          \/ (category = "Assignment" /\ escapes_from = "function")
       THEN report_general_error(buf, e, TRUE, FALSE, category, span)
       ELSE Buffer(buf, Diagnostic(
                << "borrowed data escapes outside of ", escapes_from >>, span,
                EscapingLabels(e, span), "none"))

\* Whether NiceRegionError reported the error itself.
NiceReported(e) ==
    e.to_error_fr /\ e.to_error_outlived # "None" /\ e.nice_reported

\* A match that does not look at outlived_fr_is_local.
IsEscapingShapeAnyOutlived(category, fr_is_local, outlived_fr_is_local) ==
    category \in {"Assignment", "CallArgument"} /\ fr_is_local

\* match (category, fr_is_local, outlived_fr_is_local)
IsEscapingShape(category, fr_is_local, outlived_fr_is_local) ==
    category \in {"Assignment", "CallArgument"} /\ fr_is_local /\ ~outlived_fr_is_local

\* report_error once best_blame_constraint has returned (category, span, _):
\* the buffer it leaves.
report_error(buf, e, category, span) ==
    IF NiceReported(e) THEN buf
    ELSE IF IsEscapingShape(category, e.fr_is_local, e.outlived_fr_is_local)
         THEN report_escaping_data_error(buf, e, category, span)
         ELSE report_general_error(buf, e, e.fr_is_local, e.outlived_fr_is_local,
                                   category, span)

\* The answers of the collaborators report_error consults for the blamed
\* category; an answer that is never asked for is fixed.
Collaborators(category) ==
    { e \in [ to_error_fr : BOOLEAN,
              to_error_outlived : {"None", "ReStatic", "Other"},
              nice_reported : BOOLEAN,
              fr_is_local : BOOLEAN,
              outlived_fr_is_local : BOOLEAN,
              fr_name_labelled : BOOLEAN,
              outlived_fr_name_labelled : BOOLEAN,
              fr_name_and_span : NameAndSpan,
              outlived_fr_name_and_span : NameAndSpan,
              is_closure : BOOLEAN,
              impl_trait : {"None", "StaticPredicate", "Snippet", "NoSnippet"} ] :
        /\ (~(e.to_error_fr /\ e.to_error_outlived # "None")) => ~e.nice_reported
        /\ NiceReported(e) =>
              /\ ~e.fr_is_local /\ ~e.outlived_fr_is_local /\ ~e.is_closure
              /\ ~e.fr_name_labelled /\ ~e.outlived_fr_name_labelled
        /\ (/\ IsEscapingShape(category, e.fr_is_local, e.outlived_fr_is_local)
            /\ ~(e.fr_name_and_span = "None" /\ e.outlived_fr_name_and_span = "None")
            /\ ~(category = "Assignment" /\ ~e.is_closure)) =>
              /\ ~e.fr_name_labelled /\ ~e.outlived_fr_name_labelled
        /\ (NiceReported(e)
              \/ ~IsEscapingShape(category, e.fr_is_local, e.outlived_fr_is_local)) =>
              /\ e.fr_name_and_span = "None"
              /\ e.outlived_fr_name_and_span = "None"
        /\ (NiceReported(e) \/ ~(e.to_error_fr /\ e.to_error_outlived = "ReStatic")) =>
              e.impl_trait = "None" }

\* A diagnostic buffered before the call.
PriorDiagnostic == Diagnostic(<< "prior" >>, 0, << >>, "none")

\* report_error(mir, infcx, mir_def_id, fr, outlived_fr, errors_buffer)
CallReportError ==
    \E fr \in Regions, outlived_fr \in Regions, n \in 0..MaxPrior :
        /\ StartSearch("report_error", fr, {outlived_fr})
        /\ errors_buffer' = [i \in 1..n |-> PriorDiagnostic]
        /\ old_errors_buffer' = errors_buffer'

\* report_error after best_blame_constraint: the nice region error, then
\* one of the two shapes.
ReportError ==
    /\ pc = "blamed"
    /\ entry = "report_error"
    /\ \E e \in Collaborators(blame.category) :
          /\ env' = e
          /\ errors_buffer' = report_error(errors_buffer, e, blame.category, blame.span)
    /\ pc' = "reported"
    /\ UNCHANGED << graph, entry, from_region, target_test, context, deque,
                    r, p, result, ret, blame, old_errors_buffer, enqueued,
                    dequeued >>

\* The call is over (returned or aborted); its locals are dropped.
Reset ==
    /\ pc \in {"done", "reported", "panic", "bug"}
    /\ pc' = "idle"
    /\ entry' = "none"
    /\ from_region' = 0
    /\ target_test' = {}
    /\ context' = [x \in Regions |-> NotVisited]
    /\ deque' = << >>
    /\ r' = 0
    /\ p' = 0
    /\ result' = << >>
    /\ ret' = NoneRet
    /\ blame' = NoBlame
    /\ errors_buffer' = << >>
    /\ old_errors_buffer' = << >>
    /\ env' = NoEnv
    /\ enqueued' = [x \in Regions |-> 0]
    /\ dequeued' = [x \in Regions |-> 0]
    /\ UNCHANGED graph

\* ------------------------------------------------------ the constraint graphs
\* Whether region b is reachable from region a over the constraints.
RECURSIVE ReachSet(_, _)
ReachSet(cs, S) ==
    LET T == S \cup { cs[i].sub : i \in { j \in 1..Len(cs) : cs[j].sup \in S } }
    IN IF T = S THEN S ELSE ReachSet(cs, T)

\* The edges the graph yields over all regions: the static region's edges
\* and the constraints of the other regions.
GraphEdges(cs, n, static) ==
    StaticEdges(n, static) \o SelectSeq(cs, LAMBDA c : c.sup # static)

\* The SCC of a region as the solver computes it: the regions that reach
\* each other, named by the least of them.
SccOf(cs, n, reg) ==
    CHOOSE x \in 0..(n - 1) :
        /\ x \in ReachSet(cs, {reg}) /\ reg \in ReachSet(cs, {x})
        /\ \A y \in 0..(n - 1) :
              (y \in ReachSet(cs, {reg}) /\ reg \in ReachSet(cs, {y})) => x <= y

\* Any graph of at most MaxRegions regions and MaxConstraints constraints,
\* with the SCCs of the graph.  The search reads the constraints only
\* through outgoing_edges, which keeps the order among the constraints of
\* one sup, so the constraints are listed grouped by ascending sup.
InitSearch ==
    /\ definitions \in 1..MaxRegions
    /\ \E n \in 0..MaxConstraints :
         \E f \in [1..n -> (0..(definitions - 1)) \X (0..(definitions - 1))] :
            /\ \A i \in 1..(n - 1) : f[i][1] <= f[i + 1][1]
            /\ constraints = [i \in 1..n |->
                                 OutlivesConstraint(f[i][1], f[i][2], "Boring", i)]
    /\ fr_static \in 0..(definitions - 1)
    /\ constraint_sccs = [x \in 0..(definitions - 1) |->
                              SccOf(GraphEdges(constraints, definitions, fr_static),
                                    definitions, x)]
    /\ Idle

NextSearch ==
    \/ CallFindSubRegionLiveAt
    \/ SearchFound
    \/ SearchExpand
    \/ SearchFail
    \/ TraceStep
    \/ FindSubRegionLiveAtReturn
    \/ Reset

SpecSearch == InitSearch /\ [][NextSearch]_vars

\* The chain r0 -> r1 -> .. -> rk of at most maxLen constraints, constraint i
\* with any category of cats and the span i, and any assignment of the
\* regions to the SCC ids sccIds.
InitChain(maxLen, cats, sccIds) ==
    /\ \E k \in 0..maxLen :
         /\ definitions = k + 1
         /\ \E cat \in [1..k -> cats] :
               constraints = [i \in 1..k |->
                                 OutlivesConstraint(i - 1, i, cat[i], i)]
         /\ constraint_sccs \in [0..k -> sccIds]
         /\ fr_static \in 0..k
    /\ Idle

\* Categories of the longer chains: one the primary selection may blame, two
\* it never blames (and Internal on the edges out of the static region).
ChainCategories == {"Assignment", "OpaqueType", "Boring"}

InitBlame ==
    \/ InitChain(MaxChain, ChainCategories, {0, 1})
    \/ InitChain(MaxRankChain, ConstraintCategory, {0})

NextBlame ==
    \/ CallFindOutlivesBlameSpan
    \/ SearchFound
    \/ SearchExpand
    \/ SearchFail
    \/ TraceStep
    \/ BestBlameConstraint
    \/ FindOutlivesBlameSpanReturn
    \/ Reset

SpecBlame == InitBlame /\ [][NextBlame]_vars

InitReport == InitChain(MaxReportChain, ConstraintCategory, {0})

NextReport ==
    \/ CallReportError
    \/ SearchFound
    \/ SearchExpand
    \/ SearchFail
    \/ TraceStep
    \/ BestBlameConstraint
    \/ ReportError
    \/ Reset

SpecReport == InitReport /\ [][NextReport]_vars

\* Every entry point on every graph drawn above.
Init == InitSearch \/ InitBlame \/ InitReport

Next ==
    \/ CallFindSubRegionLiveAt
    \/ CallFindOutlivesBlameSpan
    \/ CallReportError
    \/ SearchFound
    \/ SearchExpand
    \/ SearchFail
    \/ TraceStep
    \/ FindSubRegionLiveAtReturn
    \/ BestBlameConstraint
    \/ FindOutlivesBlameSpanReturn
    \/ ReportError
    \/ Reset

Spec == Init /\ [][Next]_vars

\* A running call takes its next step: the search and the walk are loops of
\* one sequential function.
SpecSearchFair ==
    /\ SpecSearch
    /\ WF_vars(SearchFound \/ SearchExpand \/ SearchFail \/ TraceStep)

\* ------------------------------------------------------------ properties
\* The search has returned to its caller.
Returned == pc \in {"returned", "blamed", "done", "reported", "panic"}

\* The sub regions of the edges the graph yields for the regions of S.
Successors(S) ==
    UNION { { outgoing_edges(x)[i].sub : i \in 1..Len(outgoing_edges(x)) } : x \in S }

\* The regions a directed path of at most k constraints reaches from S.
RECURSIVE WithinEdges(_, _)
WithinEdges(S, k) ==
    IF k = 0 THEN S ELSE WithinEdges(S \cup Successors(S), k - 1)

RECURSIVE SumOver(_, _)
SumOver(f, S) ==
    IF S = {} THEN 0
    ELSE LET x == CHOOSE y \in S : TRUE IN f[x] + SumOver(f, S \ {x})

\* C1: when the search returns a path, a region that passes target_test is
\* reachable from from_region over exactly as many constraints as the path
\* has, and none over fewer.
C1_ShortestPath ==
    (Returned /\ ret.some) =>
        LET d == Len(ret.path)
        IN /\ WithinEdges({from_region}, d) \cap target_test # {}
           /\ d > 0 => WithinEdges({from_region}, d - 1) \cap target_test = {}

\* A one-constraint path was returned to a region that a two-edge route
\* through the static region reaches too.
C1_Witness ==
    /\ pc = "returned"
    /\ ret.some
    /\ Len(ret.path) = 1
    /\ from_region # fr_static
    /\ fr_static \in Successors({from_region})
    /\ ret.region \notin {from_region, fr_static}
    /\ ret.region \in Successors({fr_static})
    /\ ret.path[1].sup = from_region
    /\ ret.path[1].category = "Boring"

\* C3: when from_region passes target_test, the search returns the empty
\* path and from_region, whatever constraints leave from_region.
C3_StartIsTarget ==
    (Returned /\ from_region \in target_test) => ret = SomeRet(<< >>, from_region)

\* The search returned for a start region that passes the test and has two
\* outgoing constraints, one of them to another region that passes it.
C3_Witness ==
    /\ pc = "returned"
    /\ from_region \in target_test
    /\ Len(outgoing_edges(from_region)) >= 2
    /\ \E i \in 1..Len(constraints) :
          /\ constraints[i].sup = from_region
          /\ constraints[i].sub # from_region
          /\ constraints[i].sub \in target_test
    /\ ret = SomeRet(<< >>, from_region)

\* What bounds the two loops of the search: no region is enqueued twice or
\* dequeued more often than enqueued, the deque holds the enqueued regions
\* not yet dequeued, the walk never stands on a NotVisited region and has
\* pushed fewer constraints than there are regions, no sub region twice.
SearchBounded ==
    /\ pc # "bug"
    /\ \A x \in Regions : enqueued[x] <= 1 /\ dequeued[x] <= enqueued[x]
    /\ pc = "search" =>
          Len(deque) = SumOver(enqueued, Regions) - SumOver(dequeued, Regions)
    /\ pc = "trace" =>
          /\ context[p] # NotVisited
          /\ Len(result) < definitions
          /\ \A i, j \in 1..Len(result) : result[i].sub = result[j].sub => i = j

\* The loop iterations the search can still run: the while loop dequeues
\* each region at most once, the walk pushes fewer constraints than there
\* are regions.
Variant ==
    CASE pc = "search" -> 2 * definitions + 2 - SumOver(dequeued, Regions)
      [] pc = "trace" -> definitions + 1 - Len(result)
      [] OTHER -> 0

\* A running search can take its next step: the return of None on an empty
\* deque, the walk when the popped region passes the test, the for loop
\* otherwise (every edge the graph yields has the popped region as its sup,
\* as the assert_eq! demands, and a sub that indexes context), and every step
\* of the walk; the variant is never negative.
SearchProgress ==
    /\ (pc = "search" /\ deque = << >>) => ENABLED SearchFail
    /\ (pc = "search" /\ deque # << >>) =>
          LET h == Head(deque)
          IN /\ h \in Regions
             /\ TargetTest(h) => ENABLED SearchFound
             /\ ~TargetTest(h) =>
                   \A i \in 1..Len(outgoing_edges(h)) :
                      /\ outgoing_edges(h)[i].sup = h
                      /\ outgoing_edges(h)[i].sub \in Regions
    /\ pc = "trace" => ENABLED TraceStep
    /\ Variant >= 0

\* A step of a running search leaves less of the variant.
VariantDecreases == pc \in {"search", "trace"} => (Variant' < Variant)

\* C10: on every graph the search terminates: each region is enqueued and
\* dequeued at most once, the backward walk meets no NotVisited region and
\* reaches the start region in fewer steps than there are regions; a running
\* search can always step, and every step strictly decreases a variant that
\* is never negative, so the search returns.
C10_SearchTerminates ==
    /\ [](SearchBounded /\ SearchProgress)
    /\ [][VariantDecreases]_vars

\* Under the fairness of a running call, a search that has started returns.
SearchReturns == (pc = "search") ~> (pc = "returned")

\* The search returned on a graph with a self-loop on a region it expanded
\* and a constraint from an expanded region back to the start region.
C10_Witness ==
    /\ pc = "returned"
    /\ \E i \in 1..Len(constraints) :
          /\ constraints[i].sup = constraints[i].sub
          /\ dequeued[constraints[i].sup] = 1
          /\ constraints[i].sup \notin target_test
    /\ \E i \in 1..Len(constraints) :
          /\ constraints[i].sub = from_region
          /\ constraints[i].sup # from_region
          /\ dequeued[constraints[i].sup] = 1
          /\ constraints[i].sup \notin target_test

\* best_blame_constraint has run on what the search returned.
Blamed == pc \in {"blamed", "done", "reported"} \/ (pc = "panic" /\ blame = Panic)

\* The positions of the path the primary selection may take: an interesting
\* category and a sup outside the SCC of the region found.
Qualifying(path, target_region) ==
    { i \in 1..Len(path) :
        /\ path[i].category \notin {"OpaqueType", "Boring", "BoringNoLocation", "Internal"}
        /\ constraint_sccs[path[i].sup] # constraint_sccs[target_region] }

\* The chain r0 -> r1 -> r2 -> r3 with every constraint an Assignment: the
\* graph yields for r0, r1 and r2 the constraint of the chain and no other
\* edge (none of them is the static region).
IsAssignmentChain ==
    /\ definitions = 4
    /\ Len(constraints) = 3
    /\ \A i \in 1..3 :
          /\ constraints[i] = OutlivesConstraint(i - 1, i, "Assignment", i)
          /\ outgoing_edges(i - 1) = << constraints[i] >>

\* C2: whenever the search returns a path, best_blame_constraint returns a
\* (category, span, target_region) and does not panic, for a path of any
\* length.
C2_BestBlameNeverFaults ==
    (Blamed /\ ret.some) => (blame.tag = "blame" /\ pc # "panic")

\* C4: when some constraint of the path qualifies, the blame is the category
\* and span of the qualifying constraint closest to the end of the path,
\* with the region the search found; on the Assignment chain from r0 to r3
\* that is r2 -> r3 when r3 is alone in its SCC, and r0 -> r1 when r1, r2, r3
\* share an SCC that is not r0's.
C4_PrimarySelection ==
    (Blamed /\ ret.some) =>
        LET path == ret.path
            Q == Qualifying(path, ret.region)
        IN /\ Q # {} =>
                \E i \in Q :
                   /\ \A j \in Q : j <= i
                   /\ blame = Blame(path[i].category, path[i].span, ret.region)
           /\ (IsAssignmentChain /\ from_region = 0 /\ ret.region = 3) =>
                /\ (\A x \in 0..2 : constraint_sccs[x] # constraint_sccs[3]) =>
                      blame = Blame("Assignment", constraints[3].span, 3)
                /\ (/\ constraint_sccs[1] = constraint_sccs[3]
                    /\ constraint_sccs[2] = constraint_sccs[3]
                    /\ constraint_sccs[0] # constraint_sccs[3]) =>
                      blame = Blame("Assignment", constraints[1].span, 3)

\* The Assignment chain from r0 to r3 with r1, r2, r3 in one SCC and r0 in
\* another: the blame is r0 -> r1, the first constraint of three.
C4_Witness ==
    /\ pc = "blamed"
    /\ IsAssignmentChain
    /\ from_region = 0
    /\ ret.some /\ ret.region = 3 /\ Len(ret.path) = 3
    /\ constraint_sccs = [x \in 0..3 |-> IF x = 0 THEN 0 ELSE 1]
    /\ blame = Blame("Assignment", 1, 3)

\* C5: when no constraint of a non-empty path qualifies, the blame is the
\* category and span of the earliest constraint of the path whose category
\* no other constraint of the path precedes in the order of the categories,
\* with the region the search found.
C5_FallbackSelection ==
    (Blamed /\ ret.some /\ ret.path # << >> /\ Qualifying(ret.path, ret.region) = {}) =>
        LET path == ret.path
        IN \E i \in 1..Len(path) :
              /\ \A j \in 1..Len(path) :
                    CategoryRank(path[i].category) <= CategoryRank(path[j].category)
              /\ \A j \in 1..(i - 1) : path[j].category # path[i].category
              /\ blame = Blame(path[i].category, path[i].span, ret.region)

\* A path of three constraints inside one SCC, the least category on the
\* second and the third: the blame is the second.
C5_Witness ==
    /\ pc = "blamed"
    /\ ret.some
    /\ Len(ret.path) = 3
    /\ \A x \in Regions : constraint_sccs[x] = constraint_sccs[ret.region]
    /\ ret.path[1].category = "OpaqueType"
    /\ ret.path[2].category = "Assignment"
    /\ ret.path[3].category = "Assignment"
    /\ blame = Blame("Assignment", ret.path[2].span, ret.region)

\* The diagnostic report_error buffered last.
LastDiagnostic == errors_buffer[Len(errors_buffer)]

GeneralMessage == << "unsatisfied lifetime constraints" >>
EscapingMessage(is_closure) ==
    << "borrowed data escapes outside of ", IF is_closure THEN "closure" ELSE "function" >>

\* C6: a call of report_error that completes either leaves the buffer as the
\* caller passed it, when the nice region error reported the violation, or
\* has appended exactly one diagnostic behind the entries that were there;
\* before it completes the buffer is as passed.
C6_OneDiagnostic ==
    /\ pc \in {"search", "trace", "returned", "blamed", "panic"} =>
          errors_buffer = old_errors_buffer
    /\ pc = "reported" =>
          IF env.to_error_fr /\ env.to_error_outlived # "None" /\ env.nice_reported
          THEN errors_buffer = old_errors_buffer
          ELSE /\ Len(errors_buffer) = Len(old_errors_buffer) + 1
               /\ SubSeq(errors_buffer, 1, Len(old_errors_buffer)) = old_errors_buffer
               /\ LastDiagnostic.message \in
                     { GeneralMessage, EscapingMessage(TRUE), EscapingMessage(FALSE) }

\* The escaping-data path reverted to the general shape (an Assignment in a
\* function) with one diagnostic already in the buffer: two in the buffer.
C6_Witness ==
    /\ pc = "reported"
    /\ blame.category = "Assignment"
    /\ env.fr_is_local /\ ~env.outlived_fr_is_local /\ ~env.is_closure
    /\ env.fr_name_and_span = "SomeNamed"
    /\ ~env.nice_reported
    /\ old_errors_buffer = << PriorDiagnostic >>
    /\ Len(errors_buffer) = 2
    /\ errors_buffer[1] = PriorDiagnostic
    /\ LastDiagnostic.message = GeneralMessage

\* The condition C7 gives for the escaping-data message.
MayEscape ==
    /\ blame.category \in {"Assignment", "CallArgument"}
    /\ env.fr_is_local
    /\ ~env.outlived_fr_is_local
    /\ ~(blame.category = "Assignment" /\ ~env.is_closure)

\* The nice region error did not report the violation.
NotNice == ~(env.to_error_fr /\ env.to_error_outlived # "None" /\ env.nice_reported)

\* C7: the diagnostic buffered says "borrowed data escapes outside of
\* {closure|function}" only if the category is Assignment or CallArgument, fr
\* is local, outlived_fr is not, and the category is not Assignment in a
\* function; in every other case it says "unsatisfied lifetime constraints".
C7_MessageShape ==
    (pc = "reported" /\ NotNice) =>
        /\ LastDiagnostic.message # GeneralMessage =>
              /\ LastDiagnostic.message = EscapingMessage(env.is_closure)
              /\ MayEscape
        /\ ~MayEscape => LastDiagnostic.message = GeneralMessage

\* A CallArgument in a function, fr local, outlived_fr not, both names
\* resolved: the escaping-data diagnostic with its three labels.
C7_Witness ==
    /\ pc = "reported"
    /\ NotNice
    /\ blame.category = "CallArgument"
    /\ ~env.is_closure
    /\ env.fr_is_local /\ ~env.outlived_fr_is_local
    /\ env.fr_name_and_span = "SomeNamed"
    /\ env.outlived_fr_name_and_span = "SomeNamed"
    /\ LastDiagnostic.message = EscapingMessage(FALSE)
    /\ Len(LastDiagnostic.labels) = 3

\* C8: on the escaping-data path, when a display name is resolved for
\* neither fr nor outlived_fr, the diagnostic buffered is the general one.
C8_NoNameReverts ==
    (/\ pc = "reported"
     /\ NotNice
     /\ blame.category \in {"Assignment", "CallArgument"}
     /\ env.fr_is_local /\ ~env.outlived_fr_is_local
     /\ env.fr_name_and_span # "SomeNamed"
     /\ env.outlived_fr_name_and_span # "SomeNamed") =>
        LastDiagnostic.message = GeneralMessage

\* The text the last label of the general shape starts with: the rendered
\* category (the labels of give_region_a_name come before it).
RenderedPhrase == LastDiagnostic.labels[Len(LastDiagnostic.labels)].text[1]

\* The general diagnostic was buffered with the "requires that" label (the
\* label of a Return whose outlived_fr is local does not render the category).
RendersPhrase ==
    /\ pc = "reported"
    /\ NotNice
    /\ LastDiagnostic.message = GeneralMessage
    /\ ~(blame.category = "Return" /\ env.outlived_fr_is_local)

\* C9: the phrase rendered for a category is empty for Boring,
\* BoringNoLocation and Internal, and for every other category a non-empty
\* text whose last character is a space and whose last but one is not.
C9_CategoryPhrase ==
    RendersPhrase =>
        IF blame.category \in {"Boring", "BoringNoLocation", "Internal"}
        THEN RenderedPhrase = << >>
        ELSE /\ Len(RenderedPhrase) >= 1
             /\ RenderedPhrase[Len(RenderedPhrase)] = " "
             /\ Len(RenderedPhrase) >= 2 =>
                   RenderedPhrase[Len(RenderedPhrase) - 1] # " "

\* The phrase of SizedBound was rendered into a label: thirty characters,
\* the last a space.
C9_Witness ==
    /\ RendersPhrase
    /\ blame.category = "SizedBound"
    /\ Len(LastDiagnostic.labels) = 3
    /\ Len(RenderedPhrase) = 30
    /\ RenderedPhrase[30] = " "

\* C11: when the search returns Some((path, R)), R passes target_test and
\* path is a chain of edges the graph yields (constraints, or edges out of
\* the static region) from from_region to R: an
\* empty path has R = from_region; otherwise the first constraint's sup is
\* from_region, each constraint's sub is the next one's sup, the last one's
\* sub is R, and no region is the sub of two constraints of the path.
C11_ConnectedChain ==
    (Returned /\ ret.some) =>
        LET path == ret.path
            n == Len(path)
        IN /\ ret.region \in target_test
           /\ \A i \in 1..n :
                 \E j \in 1..Len(outgoing_edges(path[i].sup)) :
                    outgoing_edges(path[i].sup)[j] = path[i]
           /\ n = 0 => ret.region = from_region
           /\ n > 0 => /\ path[1].sup = from_region
                       /\ path[n].sub = ret.region
           /\ \A i \in 1..(n - 1) : path[i].sub = path[i + 1].sup
           /\ \A i, j \in 1..n : path[i].sub = path[j].sub => i = j

\* A two-constraint path was returned on a graph whose third constraint
\* closes a cycle back to the start region.
C11_Witness ==
    /\ pc = "returned"
    /\ ret.some
    /\ Len(ret.path) = 2
    /\ ret.path[1].sup = from_region
    /\ ret.path[1].sub = ret.path[2].sup
    /\ ret.path[2].sub = ret.region
    /\ ret.region # from_region
    /\ \E j \in 1..Len(constraints) :
          /\ constraints[j].sup = ret.region
          /\ constraints[j].sub = from_region

====
